---- MODULE Spec2Model ----
(***************************************************************************)
(* Model of influxdb-pusher (package pusher, src/pkg/pusher.go).           *)
(*                                                                         *)
(* Strings that are only compared with "" are TLA+ strings.  The base URL  *)
(* is inspected character by character by url.Parse, so it is a sequence   *)
(* of one-character strings.  A Go pointer is a sequence of length 0 (nil) *)
(* or 1 (the object).  An error value is a record; Nil is the nil error.   *)
(***************************************************************************)
EXTENDS Integers, Sequences, FiniteSets, TLC

VARIABLES
    srvStatus,   \* status the HTTP server answers with (httptest handler)
    srvDelay,    \* time the server takes to answer, in ms
    args,        \* arguments of the last NewPusher call (<<>> before any)
    pusher,      \* *Pusher returned by the last NewPusher call
    newErr,      \* error returned by the last NewPusher call
    invoked,     \* number of option functions the last NewPusher call invoked
    calls,       \* per caller: the Push call it is running or has finished
    q,           \* white-box harness: a Pusher value built as a literal
    qPrev,       \* harness: q before the last option was applied to it
    optLast,     \* harness: the last option applied to q (<<>> before any)
    optErr,      \* harness: the error the last option returned
    examined,    \* harness: the last error value handed to the predicates
    origin,      \* harness: where examined comes from ("none", "value", "Push")
    lastCall,    \* harness: the last Push call made on q, as it returned
    cli          \* the run of the command line tool: its flags and exit code

vars == <<srvStatus, srvDelay, args, pusher, newErr, invoked, calls,
          q, qPrev, optLast, optErr, examined, origin, lastCall, cli>>

----------------------------------------------------------------------------
(* Bounds *)

MaxOpts == 2

NumCallers == 2

Callers == 1..NumCallers

----------------------------------------------------------------------------
(* Consistency and Precision enumerations *)

ConsistencyAny == 0

ConsistencyOne == 1

ConsistencyQuorum == 2

ConsistencyAll == 3

consistencyToString ==
    (ConsistencyAny :> "any") @@ (ConsistencyAll :> "all") @@
    (ConsistencyOne :> "one") @@ (ConsistencyQuorum :> "quorum")

PrecisionNanosecond == 0

PrecisionMicrosecond == 1

PrecisionMillisecond == 2

PrecisionSecond == 3

PrecisionMinute == 4

PrecisionHour == 5

precisionToString ==
    (PrecisionNanosecond :> "ns") @@ (PrecisionMicrosecond :> "u") @@
    (PrecisionMillisecond :> "ms") @@ (PrecisionSecond :> "s") @@
    (PrecisionMinute :> "m") @@ (PrecisionHour :> "h")

----------------------------------------------------------------------------
(* Error values *)

Nil == [kind |-> "nil", errType |-> -1, msg |-> ""]

\* fmt.Errorf: an error that is not a pushError
Errorf(msg) == [kind |-> "error", errType |-> -1, msg |-> msg]

errTypeBadRequest == 0

errTypeUnauthorized == 1

errTypeNotExist == 2

errTypeServerProblem == 3

\* the fifth tag: used by the tests (errTypePusher), absent from pusher.go
errTypePusher == 4

errorTypeToString ==
    (errTypeBadRequest :> "bad request") @@ (errTypeUnauthorized :> "unauthorized") @@
    (errTypeNotExist :> "not exist") @@ (errTypeServerProblem :> "server problem")

newError(t, err) == [kind |-> "pushError", errType |-> t, msg |-> err.msg]

isErrorType_AnyPushError(err, t) == err.kind = "pushError"

isErrorType(err, t) ==
    IF err.kind = "pushError" THEN err.errType = t ELSE FALSE

IsBadRequestError(err) == isErrorType(err, errTypeBadRequest)

IsUnauthorizedError(err) == isErrorType(err, errTypeUnauthorized)

IsNotExistError(err) == isErrorType(err, errTypeNotExist)

IsServerProblemError(err) == isErrorType(err, errTypeServerProblem)

\* used by the tests (IsPusherError), absent from pusher.go
IsPusherError(err) == isErrorType(err, errTypePusher)

----------------------------------------------------------------------------
(* The Pusher struct and the option functions *)

PusherStruct ==
    [baseURL |-> <<>>, db |-> "", username |-> "", password |-> "",
     consistency |-> "", precision |-> "", retentionPolicy |-> ""]

\* the timeout field: used by the tests (p.timeout), absent from pusher.go
TimeoutField == [timeout |-> 0]

\* Pusher{}
ZeroPusher == PusherStruct @@ TimeoutField

\* An option value: the constructor used and its arguments.
Option(opt, n, s1, s2) == [opt |-> opt, n |-> n, s1 |-> s1, s2 |-> s2]

OptWithConsistency_Default(c, p) ==
    IF c \notin DOMAIN consistencyToString
    THEN [p |-> [p EXCEPT !.consistency = "one"], err |-> Nil]
    ELSE [p |-> [p EXCEPT !.consistency = consistencyToString[c]], err |-> Nil]

OptWithConsistency(c, p) ==
    IF c \notin DOMAIN consistencyToString
    THEN [p |-> p, err |-> Errorf("Unknown consistency")]
    ELSE [p |-> [p EXCEPT !.consistency = consistencyToString[c]], err |-> Nil]

OptWithUserPass(user, pass, p) ==
    [p |-> [p EXCEPT !.username = user, !.password = pass], err |-> Nil]

OptWithPrecision(pr, pu) ==
    IF pr \notin DOMAIN precisionToString
    THEN [p |-> pu, err |-> Errorf("Unknown precision")]
    ELSE [p |-> [pu EXCEPT !.precision = precisionToString[pr]], err |-> Nil]

OptWithRetentionPolicy(rp, p) ==
    [p |-> [p EXCEPT !.retentionPolicy = rp], err |-> Nil]

\* used by the tests, absent from pusher.go
OptWithTimeout(d, p) ==
    [p |-> [p EXCEPT !.timeout = d], err |-> Nil]

\* a caller-written option function (o, o1, o2 of the tests): it leaves the
\* Pusher alone and returns an error or nil
CustomOpt(fails, p) ==
    [p |-> p, err |-> IF fails = 1 THEN Errorf("error") ELSE Nil]

\* opt(&p)
CallOpt(o, p) ==
    CASE o.opt = "OptWithConsistency"     -> OptWithConsistency(o.n, p)
      [] o.opt = "OptWithUserPass"        -> OptWithUserPass(o.s1, o.s2, p)
      [] o.opt = "OptWithPrecision"       -> OptWithPrecision(o.n, p)
      [] o.opt = "OptWithRetentionPolicy" -> OptWithRetentionPolicy(o.s1, p)
      [] o.opt = "OptWithTimeout"         -> OptWithTimeout(o.n, p)
      [] o.opt = "custom"                 -> CustomOpt(o.n, p)

RECURSIVE ApplyOpts_IgnoreErr(_, _, _)
ApplyOpts_IgnoreErr(opts, p, n) ==
    IF opts = <<>>
    THEN [p |-> p, err |-> Nil, invoked |-> n]
    ELSE ApplyOpts_IgnoreErr(Tail(opts), CallOpt(Head(opts), p).p, n + 1)

\* the loop of NewPusher: stops at the first option that returns an error
RECURSIVE ApplyOpts(_, _, _)
ApplyOpts(opts, p, n) ==
    IF opts = <<>>
    THEN [p |-> p, err |-> Nil, invoked |-> n]
    ELSE LET r == CallOpt(Head(opts), p)
         IN  IF r.err # Nil
             THEN [p |-> r.p, err |-> Errorf("error when creating new pusher"),
                   invoked |-> n + 1]
             ELSE ApplyOpts(Tail(opts), r.p, n + 1)

\* NewPusher: baseURL and db are checked for emptiness and never stored
NewPusher(baseURL, db, opts) ==
    IF baseURL = <<>>
    THEN [p |-> <<>>, err |-> Errorf("no url provided"), invoked |-> 0]
    ELSE IF db = ""
    THEN [p |-> <<>>, err |-> Errorf("no database provided"), invoked |-> 0]
    ELSE LET r == ApplyOpts(opts, ZeroPusher, 0)
         IN  IF r.err # Nil
             THEN [p |-> <<>>, err |-> r.err, invoked |-> r.invoked]
             ELSE [p |-> <<r.p>>, err |-> Nil, invoked |-> r.invoked]

----------------------------------------------------------------------------
(* net/url, as far as Push uses it.  The model passes url.Parse strings    *)
(* over the letters below and the characters "/", ":" and "{"; a URL's     *)
(* RawQuery is kept as the sequence of its key=value pairs.                *)

Letters == {"h", "w", "r", "i", "t", "e"}

Pair(k, v) == [k |-> k, v |-> v]

EmptyURL ==
    [Scheme |-> <<>>, Opaque |-> <<>>, Host |-> <<>>, Path |-> <<>>,
     OmitHost |-> FALSE, RawQuery |-> <<>>]

HasPrefix(s, pre) ==
    Len(s) >= Len(pre) /\ SubSeq(s, 1, Len(pre)) = pre

Contains(s, ch) == \E i \in 1..Len(s) : s[i] = ch

\* index of the first ch in s, Len(s) + 1 when there is none
Index(s, ch) ==
    IF Contains(s, ch)
    THEN CHOOSE i \in 1..Len(s) : s[i] = ch /\ \A j \in 1..(i - 1) : s[j] # ch
    ELSE Len(s) + 1

\* url.getScheme: the scheme is the run of letters before the first ':';
\* a ':' in first position is an error; any other character ends the scan
getScheme(raw) ==
    LET stop == IF \E i \in 1..Len(raw) : raw[i] \notin Letters
                THEN CHOOSE i \in 1..Len(raw) :
                         raw[i] \notin Letters /\ \A j \in 1..(i - 1) : raw[j] \in Letters
                ELSE 0
    IN  IF stop = 0 \/ raw[stop] # ":"
        THEN [ok |-> TRUE, scheme |-> <<>>, rest |-> raw]
        ELSE IF stop = 1
        THEN [ok |-> FALSE, scheme |-> <<>>, rest |-> <<>>]
        ELSE [ok |-> TRUE, scheme |-> SubSeq(raw, 1, stop - 1),
              rest |-> SubSeq(raw, stop + 1, Len(raw))]

\* url.parseHost on a host without '[' and '@': a port, when there is one,
\* is made of digits only (none in the alphabet, so the last ':' ends the
\* host), and '{' is not a host character
validHost(host) ==
    /\ ~Contains(host, "{")
    /\ Contains(host, ":") => host[Len(host)] = ":"

\* url.Parse
urlParse(raw) ==
    LET sch == getScheme(raw)
        fail(m) == [ok |-> FALSE, u |-> EmptyURL, err |-> Errorf(m)]
        ok(u) == [ok |-> TRUE, u |-> u, err |-> Nil]
    IN  IF ~sch.ok THEN fail("missing protocol scheme")
        ELSE IF ~HasPrefix(sch.rest, <<"/">>)
        THEN IF sch.scheme # <<>>
             THEN ok([EmptyURL EXCEPT !.Scheme = sch.scheme, !.Opaque = sch.rest])
             ELSE IF Contains(SubSeq(sch.rest, 1, Index(sch.rest, "/") - 1), ":")
             THEN fail("first path segment in URL cannot contain colon")
             ELSE ok([EmptyURL EXCEPT !.Path = sch.rest])
        ELSE IF /\ HasPrefix(sch.rest, <<"/", "/">>)
                /\ (sch.scheme # <<>> \/ ~HasPrefix(sch.rest, <<"/", "/", "/">>))
        THEN LET after == SubSeq(sch.rest, 3, Len(sch.rest))
                 cut == Index(after, "/")
                 authority == SubSeq(after, 1, cut - 1)
             IN  IF ~validHost(authority) THEN fail("invalid host")
                 ELSE ok([EmptyURL EXCEPT !.Scheme = sch.scheme, !.Host = authority,
                                          !.Path = SubSeq(after, cut, Len(after))])
        ELSE ok([EmptyURL EXCEPT !.Scheme = sch.scheme, !.Path = sch.rest,
                                 !.OmitHost = (sch.scheme # <<>>)])

\* url.Values: a map from key to the list of its values
RECURSIVE ParseQuery(_)
ParseQuery(raw) ==
    IF raw = <<>> THEN <<>>
    ELSE LET rest == ParseQuery(SubSeq(raw, 1, Len(raw) - 1))
             kv == raw[Len(raw)]
         IN  IF kv.k \in DOMAIN rest
             THEN [rest EXCEPT ![kv.k] = Append(@, kv.v)]
             ELSE rest @@ (kv.k :> <<kv.v>>)

\* (*URL).Query: a fresh Values parsed from RawQuery
Query(u) == ParseQuery(u.RawQuery)

\* Values.Add
Add(vals, k, v) ==
    IF k \in DOMAIN vals THEN [vals EXCEPT ![k] = Append(@, v)]
    ELSE vals @@ (k :> <<v>>)

\* URL.EscapedPath: '{' is percent-encoded
RECURSIVE EscapedPath(_)
EscapedPath(path) ==
    IF path = <<>> THEN <<>>
    ELSE (IF Head(path) = "{" THEN <<"%", "7", "B">> ELSE <<Head(path)>>)
         \o EscapedPath(Tail(path))

\* URL.String, kept split at its '?': the part before and the query pairs
URLString(u) ==
    LET scheme == IF u.Scheme # <<>> THEN u.Scheme \o <<":">> ELSE <<>>
        slashes == IF /\ (u.Scheme # <<>> \/ u.Host # <<>>)
                      /\ ~(u.OmitHost /\ u.Host = <<>>)
                      /\ (u.Host # <<>> \/ u.Path # <<>>)
                   THEN <<"/", "/">> ELSE <<>>
        path == EscapedPath(u.Path)
        sep == IF path # <<>> /\ path[1] # "/" /\ u.Host # <<>> THEN <<"/">> ELSE <<>>
    IN  [base |-> IF u.Opaque # <<>> THEN scheme \o u.Opaque
                  ELSE scheme \o slashes \o u.Host \o sep \o path,
         query |-> u.RawQuery]

----------------------------------------------------------------------------
(* Push *)

\* the pair is added to the Values that u.Query() returns, which is a copy:
\* u itself is left as it was
addQueryParamIfNotEmpty(u, k, v) ==
    LET added == IF v # "" THEN Add(Query(u), k, v) ELSE Query(u)
    IN  u

NoString == [base |-> <<>>, query |-> <<>>]

\* A call of Push: where it is, its locals, and what it has done to its
\* surroundings so far: the HTTP requests it sent (posts), the files it
\* opened and the files it closed.
IdleCall ==
    [pc |-> "idle", f |-> "", u |-> EmptyURL, uStr |-> NoString, err |-> Nil,
     posts |-> 0, opened |-> 0, closed |-> 0]

\* Push, first part: url.Parse(p.baseURL) and the return on its error
PushParse(p, f) ==
    LET r == urlParse(p.baseURL)
    IN  IF ~r.ok
        THEN [IdleCall EXCEPT !.pc = "done", !.f = f,
                              !.err = newError(errTypeBadRequest, r.err)]
        ELSE [IdleCall EXCEPT !.pc = "build", !.f = f, !.u = r.u]

PushBuild_ScrubPassword(p, call) ==
    [p |-> [p EXCEPT !.password = ""],
     call |-> [call EXCEPT !.pc = "done", !.uStr = URLString(call.u), !.err = Nil]]

PushBuild_LeakHandle(p, call) ==
    [p |-> p,
     call |-> [call EXCEPT !.pc = "done", !.uStr = URLString(call.u), !.err = Nil,
                           !.opened = @ + 1]]

\* Push, second part: the six addQueryParamIfNotEmpty calls, u.String() and
\* return nil; the request is a comment (line 217) and f is not opened.
\* p is handed back because Push has a pointer receiver.
PushBuild(p, call) ==
    LET u1 == addQueryParamIfNotEmpty(call.u, "db", p.db)
        u2 == addQueryParamIfNotEmpty(u1, "consistency", p.consistency)
        u3 == addQueryParamIfNotEmpty(u2, "u", p.username)
        u4 == addQueryParamIfNotEmpty(u3, "p", p.password)
        u5 == addQueryParamIfNotEmpty(u4, "precision", p.precision)
        u6 == addQueryParamIfNotEmpty(u5, "rp", p.retentionPolicy)
    IN  [p |-> p,
         call |-> [call EXCEPT !.pc = "done", !.u = u6, !.uStr = URLString(u6),
                               !.err = Nil]]

\* p.Push(f) run from its call to its return
Push(p, f) ==
    LET c1 == PushParse(p, f)
    IN  IF c1.pc = "done" THEN [p |-> p, call |-> c1] ELSE PushBuild(p, c1)

----------------------------------------------------------------------------
(* Inputs *)

BaseURLs == {<<>>, <<"h">>, <<"h", "/">>, <<"{">>, <<":">>}

DBs == {"", "d"}

Files == {"sampleData.txt", "nonExistingFile.txt"}

Statuses == {204, 400, 401, 404, 500, 409}

Delays == {0, 100}

\* the options handed to NewPusher
NewOpts ==
    {Option("OptWithConsistency", ConsistencyAll, "", ""),
     Option("OptWithConsistency", 42, "", ""),
     Option("OptWithUserPass", 0, "us", "pa"),
     Option("OptWithPrecision", PrecisionHour, "", ""),
     Option("OptWithRetentionPolicy", 0, "r", ""),
     Option("OptWithTimeout", 50, "", ""),
     Option("custom", 0, "", ""),
     Option("custom", 1, "", "")}

OptSeqs == UNION {[1..n -> NewOpts] : n \in 0..MaxOpts}

\* the options applied one at a time to a Pusher literal
AllOpts ==
    {Option("OptWithConsistency", c, "", "") : c \in {0, 1, 2, 3, 42}} \cup
    {Option("OptWithPrecision", pr, "", "") : pr \in {0, 1, 2, 3, 4, 5, 42}} \cup
    {Option("OptWithUserPass", 0, "us", "pa"), Option("OptWithUserPass", 0, "", "")} \cup
    {Option("OptWithRetentionPolicy", 0, rp, "") : rp \in {"", "r"}} \cup
    {Option("OptWithTimeout", d, "", "") : d \in {0, 50}}

LiteralURLs == {<<>>, <<"h">>, <<":">>}

ErrorValues ==
    {Nil, Errorf("e")} \cup
    {newError(t, Errorf("e")) : t \in {errTypeBadRequest, errTypeUnauthorized,
                                       errTypeNotExist, errTypeServerProblem,
                                       errTypePusher}}

----------------------------------------------------------------------------
(* State machine *)

Init ==
    /\ srvStatus \in Statuses
    /\ srvDelay \in Delays
    /\ args = <<>>
    /\ pusher = <<>>
    /\ newErr = Nil
    /\ invoked = 0
    /\ calls = [c \in Callers |-> IdleCall]
    /\ q = ZeroPusher
    /\ qPrev = ZeroPusher
    /\ optLast = <<>>
    /\ optErr = Nil
    /\ examined = Nil
    /\ origin = "none"
    /\ lastCall = IdleCall
    /\ cli = <<>>

\* p, err := NewPusher(baseURL, db, opts...).  A behaviour follows the
\* object of one NewPusher call: the call is made once, then callers push.
NewPusherCall ==
    /\ args = <<>>
    /\ \E baseURL \in BaseURLs, db \in DBs, opts \in OptSeqs :
         LET r == NewPusher(baseURL, db, opts)
         IN  /\ args' = <<[baseURL |-> baseURL, db |-> db, opts |-> opts]>>
             /\ pusher' = r.p
             /\ newErr' = r.err
             /\ invoked' = r.invoked
    /\ calls' = [c \in Callers |-> IdleCall]
    /\ UNCHANGED <<srvStatus, srvDelay, cli, lastCall, q, qPrev, optLast, optErr, examined, origin>>

\* caller c enters p.Push(f) and runs it up to the parsing of the URL
PushBegin(c) ==
    /\ pusher # <<>>
    /\ calls[c].pc \in {"idle", "done"}
    /\ \E f \in Files : calls' = [calls EXCEPT ![c] = PushParse(pusher[1], f)]
    /\ UNCHANGED <<srvStatus, srvDelay, cli, lastCall, args, pusher, newErr, invoked,
                   q, qPrev, optLast, optErr, examined, origin>>

\* caller c runs the rest of Push and returns
PushEnd(c) ==
    /\ pusher # <<>>
    /\ calls[c].pc = "build"
    /\ LET r == PushBuild(pusher[1], calls[c])
       IN  /\ pusher' = <<r.p>>
           /\ calls' = [calls EXCEPT ![c] = r.call]
    /\ UNCHANGED <<srvStatus, srvDelay, cli, lastCall, args, newErr, invoked,
                   q, qPrev, optLast, optErr, examined, origin>>

Next ==
    \/ NewPusherCall
    \/ \E c \in Callers : PushBegin(c)
    \/ \E c \in Callers : PushEnd(c)

Spec == Init /\ [][Next]_vars

(* White-box harness, as in pusher_test.go: options applied to a Pusher    *)
(* literal, Push called on it, error values handed to the predicates.      *)

InitPure == Init /\ srvStatus = 204 /\ srvDelay = 0

\* p := Pusher{baseURL: b}
Literal ==
    /\ \E b \in LiteralURLs : q' = [ZeroPusher EXCEPT !.baseURL = b]
    /\ qPrev' = q'
    /\ optLast' = <<>>
    /\ optErr' = Nil
    /\ lastCall' = IdleCall
    /\ UNCHANGED <<srvStatus, srvDelay, cli, args, pusher, newErr, invoked, calls, examined,
                   origin>>

\* err := Opt...(...)(&p)
ApplyOpt ==
    /\ \E o \in AllOpts :
         LET r == CallOpt(o, q)
         IN  /\ q' = r.p
             /\ optLast' = <<o>>
             /\ optErr' = r.err
    /\ qPrev' = q
    /\ UNCHANGED <<srvStatus, srvDelay, cli, lastCall, args, pusher, newErr, invoked, calls, examined,
                   origin>>

\* err := p.Push(f) on the literal
PushLiteral ==
    /\ \E f \in Files :
         LET r == Push(q, f)
         IN  /\ q' = r.p
             /\ examined' = r.call.err
             /\ lastCall' = r.call
    /\ origin' = "Push"
    /\ UNCHANGED <<srvStatus, srvDelay, cli, args, pusher, newErr, invoked, calls,
                   qPrev, optLast, optErr>>

\* an error value of any origin
Examine ==
    /\ \E e \in ErrorValues : examined' = e
    /\ origin' = "value"
    /\ UNCHANGED <<srvStatus, srvDelay, cli, lastCall, args, pusher, newErr, invoked, calls,
                   q, qPrev, optLast, optErr>>

NextPure ==
    \/ Literal
    \/ ApplyOpt
    \/ PushLiteral
    \/ Examine

SpecPure == InitPure /\ [][NextPure]_vars

----------------------------------------------------------------------------
(* The command line tool (package main): doMain and its helpers.  The      *)
(* flag package is taken by its result: whether cmd.Parse(args) succeeded, *)
(* and the value of each flag.                                             *)

retOk == 0

retConfFailure == 1

retExecFailure == 2

\* time.ParseDuration on the strings given to -t, in ms
ParseDuration(s) ==
    CASE s = "50ms" -> [ok |-> TRUE, d |-> 50]
      [] s = "0s"   -> [ok |-> TRUE, d |-> 0]
      [] OTHER      -> [ok |-> FALSE, d |-> 0]

getPrecision(p) ==
    IF \E curP \in DOMAIN precisionToString : precisionToString[curP] = p
    THEN [p |-> CHOOSE curP \in DOMAIN precisionToString : precisionToString[curP] = p,
          found |-> TRUE]
    ELSE [p |-> PrecisionSecond, found |-> FALSE]

getConsistency(c) ==
    IF \E curC \in DOMAIN consistencyToString : consistencyToString[curC] = c
    THEN [c |-> CHOOSE curC \in DOMAIN consistencyToString : consistencyToString[curC] = c,
          found |-> TRUE]
    ELSE [c |-> ConsistencyOne, found |-> FALSE]

\* doMain: the exit code, and the error of the push when one was made
doMain(a) ==
    LET exit(ret, err) == [ret |-> ret, err |-> err]
    IN  IF a.parse # "ok" THEN exit(retConfFailure, Nil)
        ELSE IF a.u = <<>> THEN exit(retConfFailure, Nil)
        ELSE IF a.d = "" THEN exit(retConfFailure, Nil)
        ELSE IF a.f = "" THEN exit(retConfFailure, Nil)
        ELSE
          LET cons == getConsistency(a.c)
              prec == getPrecision(a.pr)
              td == ParseDuration(a.t)
              o1 == <<Option("OptWithUserPass", 0, a.us, a.p)>>
              o2 == IF cons.found
                    THEN Append(o1, Option("OptWithConsistency", cons.c, "", "")) ELSE o1
              o3 == IF prec.found
                    THEN Append(o2, Option("OptWithPrecision", prec.p, "", "")) ELSE o2
              o4 == IF a.r # ""
                    THEN Append(o3, Option("OptWithRetentionPolicy", 0, a.r, "")) ELSE o3
          IN  IF a.t # "" /\ ~td.ok THEN exit(retConfFailure, Nil)
              ELSE
                LET opts == IF a.t # ""
                            THEN Append(o4, Option("OptWithTimeout", td.d, "", "")) ELSE o4
                    np == NewPusher(a.u, a.d, opts)
                IN  IF np.err # Nil THEN exit(retExecFailure, np.err)
                    ELSE LET r == Push(np.p[1], a.f)
                         IN  IF r.call.err # Nil THEN exit(retExecFailure, r.call.err)
                             ELSE exit(retOk, Nil)

\* the command lines: the outcome of flag parsing and the flag values
FlagSets ==
    [parse : {"ok", "help", "error"},
     u : {<<>>, <<"h">>}, d : {"", "d"},
     f : {"", "sampleData.txt", "nonExistingFile.txt"},
     c : {"", "all", "bogus"}, pr : {"", "h", "bogus"},
     us : {"us"}, p : {"pa"}, r : {"", "r"},
     t : {"", "50ms", "bla"}]

\* one run of the tool
DoMain ==
    /\ cli = <<>>
    /\ \E a \in FlagSets :
         LET r == doMain(a)
         IN  cli' = <<[a |-> a, ret |-> r.ret, err |-> r.err]>>
    /\ UNCHANGED <<srvStatus, srvDelay, args, pusher, newErr, invoked, calls,
                   q, qPrev, optLast, optErr, examined, origin, lastCall>>

NextMain == DoMain

SpecMain == Init /\ [][NextMain]_vars

----------------------------------------------------------------------------
(* Properties *)

\* the arguments of the NewPusher call
A == args[1]

Done(c) == calls[c].pc = "done"

\* the payload files that exist on disk
ExistingFiles == {"sampleData.txt"}

Kinds == {errTypeBadRequest, errTypeUnauthorized, errTypeNotExist,
          errTypeServerProblem, errTypePusher}

\* the predicate of kind k applied to e
Pred(k, e) ==
    CASE k = errTypeBadRequest    -> IsBadRequestError(e)
      [] k = errTypeUnauthorized  -> IsUnauthorizedError(e)
      [] k = errTypeNotExist      -> IsNotExistError(e)
      [] k = errTypeServerProblem -> IsServerProblemError(e)
      [] k = errTypePusher        -> IsPusherError(e)

TruePreds(e) == {k \in Kinds : Pred(k, e)}

\* the options that return an error, as the documentation lists them
Fails(o) ==
    \/ o.opt = "custom" /\ o.n = 1
    \/ o.opt = "OptWithConsistency" /\ o.n \notin 0..3
    \/ o.opt = "OptWithPrecision" /\ o.n \notin 0..5

Accepted ==
    /\ args # <<>>
    /\ A.baseURL # <<>>
    /\ A.db # ""
    /\ \A i \in 1..Len(A.opts) : ~Fails(A.opts[i])

\* the server answers before the configured timeout, if any
InTime == pusher[1].timeout = 0 \/ srvDelay <= pusher[1].timeout

\* C1: the kind of error that Push returns is decided by the HTTP status:
\* 204 gives nil, 400 bad-request, 401 unauthorized, 404 not-found, 500
\* server-problem and any other status the generic kind, with exactly the
\* predicate of that kind true.
C1_StatusClassified ==
    \A c \in Callers :
        (/\ pusher # <<>> /\ Done(c)
         /\ urlParse(A.baseURL).ok
         /\ calls[c].f \in ExistingFiles
         /\ InTime)
        => IF srvStatus = 204 THEN calls[c].err = Nil
           ELSE /\ calls[c].err # Nil
                /\ TruePreds(calls[c].err) =
                     {CASE srvStatus = 400 -> errTypeBadRequest
                        [] srvStatus = 401 -> errTypeUnauthorized
                        [] srvStatus = 404 -> errTypeNotExist
                        [] srvStatus = 500 -> errTypeServerProblem
                        [] OTHER           -> errTypePusher}

\* the value configured for each query key
Configured(key) ==
    CASE key = "db"          -> A.db
      [] key = "consistency" -> pusher[1].consistency
      [] key = "u"           -> pusher[1].username
      [] key = "p"           -> pusher[1].password
      [] key = "precision"   -> pusher[1].precision
      [] key = "rp"          -> pusher[1].retentionPolicy

QueryKeys == {"db", "consistency", "u", "p", "precision", "rp"}

\* C2: the URL that Push builds carries exactly one pair key=value for each
\* of the six settings whose value is non-empty, and no pair for the others.
C2_QueryCarriesSettings ==
    \A c \in Callers :
        (pusher # <<>> /\ Done(c) /\ calls[c].err = Nil)
        => \A key \in QueryKeys :
             LET at == {i \in 1..Len(calls[c].uStr.query) : calls[c].uStr.query[i].k = key}
             IN  IF Configured(key) = "" THEN at = {}
                 ELSE /\ Cardinality(at) = 1
                      /\ \A i \in at : calls[c].uStr.query[i].v = Configured(key)

\* baseURL with /write appended, a slash being inserted when it has none
WriteURL(baseURL) ==
    IF baseURL[Len(baseURL)] = "/"
    THEN baseURL \o <<"w", "r", "i", "t", "e">>
    ELSE baseURL \o <<"/", "w", "r", "i", "t", "e">>

\* C3: NewPusher(baseURL, db) with both arguments non-empty succeeds and
\* stores baseURL with exactly one /write appended.
C3_BaseURLCompleted ==
    (args # <<>> /\ A.baseURL # <<>> /\ A.db # "" /\ A.opts = <<>>)
    => /\ newErr = Nil
       /\ pusher # <<>>
       /\ pusher[1].baseURL = WriteURL(A.baseURL)

\* C4: NewPusher returns an error and a nil Pusher when baseURL is empty, db
\* is empty or an option returns an error; otherwise it returns a Pusher and
\* a nil error after invoking every option.
C4_NewPusherAllOrNothing ==
    args # <<>> =>
        IF A.baseURL = <<>> \/ A.db = "" \/ \E i \in 1..Len(A.opts) : Fails(A.opts[i])
        THEN newErr # Nil /\ pusher = <<>>
        ELSE pusher # <<>> /\ newErr = Nil /\ invoked = Len(A.opts)

\* an option after a valid one fails: nothing of the half-built Pusher is returned
C4_Witness ==
    /\ args # <<>> /\ A.baseURL # <<>> /\ A.db # ""
    /\ Len(A.opts) = 2 /\ ~Fails(A.opts[1]) /\ Fails(A.opts[2])
    /\ pusher = <<>> /\ newErr # Nil /\ invoked = 2

\* the wire strings, as the documentation lists them
WireConsistency(c) ==
    CASE c = 0 -> "any" [] c = 1 -> "one" [] c = 2 -> "quorum" [] c = 3 -> "all"

WirePrecision(pr) ==
    CASE pr = 0 -> "ns" [] pr = 1 -> "u" [] pr = 2 -> "ms"
      [] pr = 3 -> "s" [] pr = 4 -> "m" [] pr = 5 -> "h"

\* C5: OptWithConsistency and OptWithPrecision set the field to the wire
\* string of a named value and return nil; for any other value they return
\* an error and leave the Pusher as it was.
C5_EnumOptionsFollowTable ==
    optLast # <<>> =>
        LET o == optLast[1]
        IN  /\ o.opt = "OptWithConsistency" =>
                 IF o.n \in 0..3
                 THEN optErr = Nil /\ q = [qPrev EXCEPT !.consistency = WireConsistency(o.n)]
                 ELSE optErr # Nil /\ q = qPrev
            /\ o.opt = "OptWithPrecision" =>
                 IF o.n \in 0..5
                 THEN optErr = Nil /\ q = [qPrev EXCEPT !.precision = WirePrecision(o.n)]
                 ELSE optErr # Nil /\ q = qPrev

\* an unknown consistency is rejected on a Pusher that already had one
C5_Witness ==
    /\ optLast # <<>>
    /\ optLast[1].opt = "OptWithConsistency" /\ optLast[1].n = 42
    /\ qPrev.consistency = "all" /\ q.consistency = "all"
    /\ optErr # Nil

C7_MissingFileIsLocalFailure ==
    \A c \in Callers :
        (/\ pusher # <<>> /\ Done(c)
         /\ urlParse(A.baseURL).ok
         /\ calls[c].f \notin ExistingFiles)
        => calls[c].err # Nil /\ IsPusherError(calls[c].err)

\* C8: NewPusher accepts a non-empty base URL that does not parse, and every
\* Push on the Pusher it returns fails with a bad-request error.
C8_UnparsableURLRejectedByPush ==
    (Accepted /\ ~urlParse(A.baseURL).ok)
    => /\ newErr = Nil
       /\ pusher # <<>>
       /\ \A c \in Callers : Done(c) => IsBadRequestError(calls[c].err)

\* the timeout the options of the NewPusher call configure
RECURSIVE ConfiguredTimeout(_)
ConfiguredTimeout(opts) ==
    IF opts = <<>> THEN 0
    ELSE IF opts[Len(opts)].opt = "OptWithTimeout" THEN opts[Len(opts)].n
    ELSE ConfiguredTimeout(SubSeq(opts, 1, Len(opts) - 1))

\* C9: the Pusher holds the timeout given to OptWithTimeout, and a Push that
\* the server does not answer within a positive timeout returns a
\* bad-request error, never nil.
C9_TimeoutIsBadRequest ==
    pusher # <<>> =>
        /\ pusher[1].timeout = ConfiguredTimeout(A.opts)
        /\ \A c \in Callers :
             (/\ Done(c)
              /\ urlParse(A.baseURL).ok
              /\ calls[c].f \in ExistingFiles
              /\ pusher[1].timeout > 0
              /\ srvDelay > pusher[1].timeout)
             => IsBadRequestError(calls[c].err)

\* C10: Push never changes the Pusher, and a Push call that ran interleaved
\* with others returns the error and builds the URL that it would have
\* returned and built when run alone on the Pusher as NewPusher returned it.
C10_PushLeavesPusherAlone ==
    pusher # <<>> =>
        LET built == NewPusher(A.baseURL, A.db, A.opts).p
        IN  /\ pusher = built
            /\ \A c \in Callers :
                 Done(c) =>
                     LET alone == Push(built[1], calls[c].f).call
                     IN  /\ calls[c].err = alone.err
                         /\ calls[c].uStr = alone.uStr

\* a call is half-way while another one has returned, on a Pusher with
\* credentials
C10_Witness ==
    /\ pusher # <<>>
    /\ pusher[1].password # ""
    /\ \E c1, c2 \in Callers : calls[c1].pc = "build" /\ Done(c2)

\* the names -c and -pr accept, as the usage text lists them
ConsistencyNames == {"any", "all", "one", "quorum"}

PrecisionNames == {"ns", "u", "ms", "s", "m", "h"}

\* a command line that is a configuration failure
ConfigFailure(a) ==
    \/ a.parse # "ok"
    \/ a.u = <<>> \/ a.d = "" \/ a.f = ""
    \/ a.t \notin {"", "50ms", "0s"}
    \/ a.c \notin ConsistencyNames \cup {""}
    \/ a.pr \notin PrecisionNames \cup {""}

\* C11: doMain returns 1 for every configuration failure (a required flag
\* missing, flags that do not parse, a -t that is not a duration, a -c or -pr
\* name that is not recognized), 0 exactly when the push succeeds, and 2 only
\* when the push fails.
C11_ExitCodes ==
    cli # <<>> =>
        LET a == cli[1].a
            ret == cli[1].ret
        IN  /\ ret \in {0, 1, 2}
            /\ ConfigFailure(a) => ret = 1
            /\ ~ConfigFailure(a) => ret = (IF cli[1].err = Nil THEN 0 ELSE 2)

\* C12: a Push call sends at most one request; it sends none and opens no
\* file when the URL cannot be built, and returns bad-request then; it sends
\* none when the file cannot be opened; it sends exactly one when the URL is
\* built and the file opened.
C12_OneAttemptInOrder ==
    \A c \in Callers :
        (pusher # <<>> /\ Done(c)) =>
            LET urlOk == urlParse(pusher[1].baseURL).ok
                fileOk == calls[c].f \in ExistingFiles
            IN  /\ calls[c].posts <= 1
                /\ ~urlOk => /\ calls[c].opened = 0
                             /\ calls[c].posts = 0
                             /\ IsBadRequestError(calls[c].err)
                /\ ~fileOk => calls[c].posts = 0
                /\ (urlOk /\ fileOk) => calls[c].posts = 1

====
